---- MODULE Spec2Model ----
(***************************************************************************)
(* Model of the Pi-hole API core:                                          *)
(*   - src/src/lists/service.rs    : ListServiceImpl (add / remove) and     *)
(*                                   reload_gravity                         *)
(*   - src/src/settings/dnsmasq.rs : generate_dnsmasq_config                *)
(* The list repository, List::accepts, the FTL connection and the          *)
(* SetupVars reader are collaborators whose code lives outside these two   *)
(* files; they are modelled from their documented contract.                *)
(***************************************************************************)
EXTENDS Integers, Sequences, FiniteSets, TLC

VARIABLES repo,        \* ListRepository contents: List -> sequence of entries
          call,        \* the last completed ListService call and its effects
          setupVars,   \* the SetupVars settings store (read-only here)
          config,      \* contents of the dnsmasq config file on disk
          gen          \* the last completed generate_dnsmasq_config call

vars == <<repo, call, setupVars, config, gen>>

listVars == <<repo, call>>
genVars == <<setupVars, config, gen>>

(***************************************************************************)
(* Lists                                                                   *)
(***************************************************************************)

\* enum List { White, Black, Regex }
List == {"White", "Black", "Regex"}

\* Strings handed to the service: two hostnames, one string that is a
\* pattern but no hostname, and the empty string.
Hostnames == {"a.com", "b.com"}
Domains == Hostnames \cup {"^ad[0-9]", ""}

\* List::accepts: White/Black take hostnames, Regex any non-empty pattern.
accepts(list, domain) ==
    IF list = "Regex" THEN domain # "" ELSE domain \in Hostnames

\* ListRepository::contains / add / remove on the stored entries.
repo_contains(r, list, domain) ==
    \E i \in DOMAIN r[list] : r[list][i] = domain

repo_add(r, list, domain) ==
    [r EXCEPT ![list] = Append(@, domain)]

repo_remove(r, list, domain) ==
    [r EXCEPT ![list] = SelectSeq(@, LAMBDA x : x # domain)]

\* The external calls a service call can make, each of which may fail.
\* A call returns at the first failure it meets, so one failing call per
\* service call covers every combination of failures.
RepoCalls == {<<op, l>> : op \in {"contains", "add", "remove"}, l \in List}
ReloadCalls == {<<"reload", "spawn">>, <<"reload", "status">>}
FtlCalls == {<<"ftl", "connect">>, <<"ftl", "expect_eom">>}
ExternalCalls == RepoCalls \cup ReloadCalls \cup FtlCalls
Faults == {{}} \cup {{x} : x \in ExternalCalls}

\* Env::is_test is true only for the environment the test harness builds.
env_is_test == FALSE

\* A call in progress: repository, effects so far, and the result so far.
Ctx(r) == [repo |-> r, ev |-> <<>>, res |-> "Ok"]

Err(c, kind) == [c EXCEPT !.res = kind]

Effect(c, e) == [c EXCEPT !.ev = Append(@, e)]

\* add_raw without the membership test.
add_raw_no_contains(c, list, domain, f) ==
    IF ~accepts(list, domain) THEN Err(c, "InvalidDomain")
    ELSE IF <<"add", list>> \in f THEN Err(c, "RepoError")
    ELSE Effect([c EXCEPT !.repo = repo_add(@, list, domain)],
                <<"repo.add", list, domain>>)

\* ListServiceImpl::add_raw
add_raw(c, list, domain, f) ==
    IF ~accepts(list, domain) THEN Err(c, "InvalidDomain")
    ELSE IF <<"contains", list>> \in f THEN Err(c, "RepoError")
    ELSE IF repo_contains(c.repo, list, domain) THEN Err(c, "AlreadyExists")
    ELSE IF <<"add", list>> \in f THEN Err(c, "RepoError")
    ELSE Effect([c EXCEPT !.repo = repo_add(@, list, domain)],
                <<"repo.add", list, domain>>)

\* remove_raw deleting without the membership test.
remove_raw_no_contains(c, list, domain, f) ==
    IF ~accepts(list, domain) THEN Err(c, "InvalidDomain")
    ELSE IF <<"remove", list>> \in f THEN Err(c, "RepoError")
    ELSE Effect([c EXCEPT !.repo = repo_remove(@, list, domain)],
                <<"repo.remove", list, domain>>)

\* ListServiceImpl::remove_raw
remove_raw(c, list, domain, f) ==
    IF ~accepts(list, domain) THEN Err(c, "InvalidDomain")
    ELSE IF <<"contains", list>> \in f THEN Err(c, "RepoError")
    ELSE IF ~repo_contains(c.repo, list, domain) THEN Err(c, "NotFound")
    ELSE IF <<"remove", list>> \in f THEN Err(c, "RepoError")
    ELSE Effect([c EXCEPT !.repo = repo_remove(@, list, domain)],
                <<"repo.remove", list, domain>>)

\* try_remove_raw passing every error of remove_raw through.
try_remove_raw_strict(c, list, domain, f) ==
    remove_raw(c, list, domain, f)

\* try_remove_raw ignoring every error of remove_raw.
try_remove_raw_ignore_all(c, list, domain, f) ==
    LET r == remove_raw(c, list, domain, f)
    IN  IF r.res = "Ok" THEN r ELSE Err(r, "Ok")

\* ListServiceImpl::try_remove_raw
try_remove_raw(c, list, domain, f) ==
    LET r == remove_raw(c, list, domain, f)
    IN  IF r.res = "Ok" THEN r
        ELSE IF r.res = "NotFound" THEN Err(r, "Ok")
        ELSE r

\* The command line reload_gravity runs for a list.
GravityCommand(arg) == <<"sudo", "pihole", "-g", "--skip-download", arg>>

\* reload_gravity taking any exit status for success.
reload_gravity_ignore_status(c, list, is_test, f) ==
    IF is_test THEN c
    ELSE IF list \notin {"White", "Black"} THEN Err(c, "Unknown")
    ELSE LET cmd == GravityCommand(IF list = "White" THEN "--whitelist-only"
                                   ELSE "--blacklist-only")
         IN  IF <<"reload", "spawn">> \in f
             THEN Err(Effect(c, <<"reload", cmd, "not launched">>), "GravityError")
             ELSE IF <<"reload", "status">> \in f
             THEN Effect(c, <<"reload", cmd, "exit 1">>)
             ELSE Effect(c, <<"reload", cmd, "exit 0">>)

\* reload_gravity
reload_gravity(c, list, is_test, f) ==
    IF is_test THEN c
    ELSE IF list \notin {"White", "Black"} THEN Err(c, "Unknown")
    ELSE LET cmd == GravityCommand(IF list = "White" THEN "--whitelist-only"
                                   ELSE "--blacklist-only")
         IN  IF <<"reload", "spawn">> \in f
             THEN Err(Effect(c, <<"reload", cmd, "not launched">>), "GravityError")
             ELSE IF <<"reload", "status">> \in f
             THEN Err(Effect(c, <<"reload", cmd, "exit 1">>), "GravityError")
             ELSE Effect(c, <<"reload", cmd, "exit 0">>)

\* self.ftl.connect("recompile-regex")?.expect_eom()
recompile_regex(c, f) ==
    IF <<"ftl", "connect">> \in f
    THEN Err(Effect(c, <<"ftl", "recompile-regex", "not connected">>),
             "ControlChannelError")
    ELSE IF <<"ftl", "expect_eom">> \in f
    THEN Err(Effect(c, <<"ftl", "recompile-regex", "no eom">>),
             "ControlChannelError")
    ELSE Effect(c, <<"ftl", "recompile-regex", "eom">>)

\* The list add() clears of the same domain: Black for White and back.
Opposite(list) == IF list = "White" THEN "Black" ELSE "White"

\* add with the Regex arm written like the White and Black arms.
add_cross_every_list(c, list, domain, f) ==
    LET c1 == add_raw(c, list, domain, f)
    IN  IF c1.res # "Ok" THEN c1
        ELSE LET c2 == try_remove_raw(c1, Opposite(list), domain, f)
             IN  IF c2.res # "Ok" THEN c2
                 ELSE IF list = "Regex" THEN recompile_regex(c2, f)
                 ELSE reload_gravity(c2, list, env_is_test, f)

\* add reloading before it touches the repository.
add_reload_first(c, list, domain, f) ==
    IF list \in {"White", "Black"}
    THEN LET c1 == reload_gravity(c, list, env_is_test, f)
         IN  IF c1.res # "Ok" THEN c1
             ELSE LET c2 == add_raw(c1, list, domain, f)
                  IN  IF c2.res # "Ok" THEN c2
                      ELSE try_remove_raw(c2, Opposite(list), domain, f)
    ELSE LET c1 == recompile_regex(c, f)
         IN  IF c1.res # "Ok" THEN c1
             ELSE add_raw(c1, "Regex", domain, f)

\* add undoing its insert when the removal from the other list fails.
add_rollback_on_error(c, list, domain, f) ==
    IF list \in {"White", "Black"}
    THEN LET c1 == add_raw(c, list, domain, f)
         IN  IF c1.res # "Ok" THEN c1
             ELSE LET c2 == try_remove_raw(c1, Opposite(list), domain, f)
                  IN  IF c2.res # "Ok"
                      THEN [c2 EXCEPT !.repo = repo_remove(@, list, domain)]
                      ELSE reload_gravity(c2, list, env_is_test, f)
    ELSE LET c1 == add_raw(c, "Regex", domain, f)
         IN  IF c1.res # "Ok" THEN c1
             ELSE recompile_regex(c1, f)

\* ListServiceImpl::add
add(c, list, domain, f) ==
    IF list \in {"White", "Black"}
    THEN LET c1 == add_raw(c, list, domain, f)
         IN  IF c1.res # "Ok" THEN c1
             ELSE LET c2 == try_remove_raw(c1, Opposite(list), domain, f)
                  IN  IF c2.res # "Ok" THEN c2
                      ELSE reload_gravity(c2, list, env_is_test, f)
    ELSE LET c1 == add_raw(c, "Regex", domain, f)
         IN  IF c1.res # "Ok" THEN c1
             ELSE recompile_regex(c1, f)

\* ListServiceImpl::remove
remove(c, list, domain, f) ==
    IF list \in {"White", "Black"}
    THEN LET c1 == remove_raw(c, list, domain, f)
         IN  IF c1.res # "Ok" THEN c1
             ELSE reload_gravity(c1, list, env_is_test, f)
    ELSE LET c1 == remove_raw(c, "Regex", domain, f)
         IN  IF c1.res # "Ok" THEN c1
             ELSE recompile_regex(c1, f)

\* What is remembered of a completed call.
Completed(op, list, domain, pre, c) ==
    [op |-> op, list |-> list, domain |-> domain, pre |-> pre,
     res |-> c.res, ev |-> c.ev]

NoCall ==
    [op |-> "none", list |-> "White", domain |-> "", pre |-> [l \in List |-> <<>>],
     res |-> "Ok", ev |-> <<>>]

\* Orderings of a set of entries without repetition.
Perms(S) ==
    {s \in [1..Cardinality(S) -> S] : \A i, j \in 1..Cardinality(S) :
        i # j => s[i] # s[j]}

Orderings(S) == UNION {Perms(T) : T \in SUBSET S}

\* Repositories as add/remove leave them when nothing fails: accepted
\* entries only, none twice, none on both White and Black.
InitRepos ==
    {r \in [List -> Orderings({d \in Domains : d # ""})] :
        /\ \A l \in List : \A i \in DOMAIN r[l] : accepts(l, r[l][i])
        /\ \A d \in Domains :
               ~(repo_contains(r, "White", d) /\ repo_contains(r, "Black", d))}

InitLists ==
    /\ repo \in InitRepos
    /\ call = NoCall
    /\ setupVars = <<>>
    /\ config = <<>>
    /\ gen = [res |-> "none", out |-> <<>>]

Add(list, domain, f) ==
    LET c == add(Ctx(repo), list, domain, f)
    IN  /\ repo' = c.repo
        /\ call' = Completed("add", list, domain, repo, c)
        /\ UNCHANGED genVars

Remove(list, domain, f) ==
    LET c == remove(Ctx(repo), list, domain, f)
    IN  /\ repo' = c.repo
        /\ call' = Completed("remove", list, domain, repo, c)
        /\ UNCHANGED genVars

(***************************************************************************)
(* Dnsmasq configuration generator                                         *)
(***************************************************************************)

\* Number of PIHOLE_DNS_<n> keys a settings store may hold.
MaxDns == 4
\* Largest DHCP_LEASETIME a settings store may hold.
MaxLease == 2

\* const DNSMASQ_HEADER, line by line.
DNSMASQ_HEADER ==
    << <<"################################################################">>,
       <<"#       THIS FILE IS AUTOMATICALLY GENERATED BY PI-HOLE.       #">>,
       <<"#          ANY CHANGES MADE TO THIS FILE WILL BE LOST.         #">>,
       <<"#                                                              #">>,
       <<"#  NEW CONFIG SETTINGS MUST BE MADE IN A SEPARATE CONFIG FILE  #">>,
       <<"#                OR IN /etc/dnsmasq.conf                       #">>,
       <<"################################################################">>,
       <<"">>,
       <<"localise-queries">>,
       <<"local-ttl=2">>,
       <<"cache-size=10000">> >>

\* SetupVarsEntry::PiholeDns(i).key()
PiholeDns(i) == "PIHOLE_DNS_" \o ToString(i)

\* SetupVarsEntry::read: the stored value, empty when the key is missing.
read(sv, key) == IF key \in DOMAIN sv THEN sv[key] ELSE ""

\* SetupVarsEntry::is_true
is_true(sv, key) == read(sv, key) = "true"

\* A generate call in progress: the write calls that went through (each a
\* sequence of lines), the result so far, and what fails in this call:
\* rf, the keys whose read fails, and errAt, the write call that fails.
Writer(sv, rf, errAt) ==
    [out |-> <<>>, res |-> "Ok", sv |-> sv, rf |-> rf, errAt |-> errAt]

\* One write_all / writeln! on the BufWriter, with .context(DnsmasqConfigWrite)?
Emit(w, lines) ==
    IF w.res # "Ok" THEN w
    ELSE IF Len(w.out) + 1 = w.errAt THEN Err(w, "DnsmasqConfigWrite")
    ELSE [w EXCEPT !.out = Append(@, lines)]

\* entry.read(env)? / entry.is_true(env)? for each of keys, in order
Reads(w, keys) ==
    IF w.res # "Ok" THEN w
    ELSE IF \E i \in DOMAIN keys : keys[i] \in w.rf THEN Err(w, "FileRead")
    ELSE w

\* write_header
write_header(w) == Emit(w, DNSMASQ_HEADER)

\* The loop of write_servers that goes on past an empty setting.
RECURSIVE servers_skip_empty(_, _)
servers_skip_empty(w, i) ==
    LET r == Reads(w, <<PiholeDns(i)>>)
        dns == read(w.sv, PiholeDns(i))
    IN  IF r.res # "Ok" THEN r
        ELSE IF PiholeDns(i) \notin DOMAIN w.sv THEN r
        ELSE IF dns = "" THEN servers_skip_empty(r, i + 1)
        ELSE servers_skip_empty(Emit(r, <<<<"server=", dns>>>>), i + 1)

\* The loop of write_servers, from index i on.
RECURSIVE servers_from(_, _)
servers_from(w, i) ==
    LET r == Reads(w, <<PiholeDns(i)>>)
        dns == read(w.sv, PiholeDns(i))
    IN  IF r.res # "Ok" THEN r
        ELSE IF dns = "" THEN r
        ELSE servers_from(Emit(r, <<<<"server=", dns>>>>), i + 1)

\* write_servers going on past an empty setting.
write_servers_skip_empty(w) ==
    IF w.res # "Ok" THEN w ELSE servers_skip_empty(w, 1)

\* write_servers
write_servers(w) == IF w.res # "Ok" THEN w ELSE servers_from(w, 1)

\* write_lists
write_lists(w) ==
    LET w1 == Emit(w, <<<<"addn-hosts=", "/etc/pihole/gravity.list">>>>)
        w2 == Emit(w1, <<<<"addn-hosts=", "/etc/pihole/black.list">>>>)
    IN  Emit(w2, <<<<"addn-hosts=", "/etc/pihole/local.list">>>>)

QueryLoggingLines ==
    << <<"log-queries">>, <<"log-facility=", "/var/log/pihole.log">>,
       <<"log-async">> >>

DnssecLines ==
    << <<"dnssec">>,
       <<"trust-anchor=",
         ".,19036,8,2,49AAC11D7B6F6446702E54A1607371607A1A41855200FD2CE1CDDE32F24E8FB5">>,
       <<"trust-anchor=",
         ".,20326,8,2,E06D44B80B8F1D39A95C0B0D7C65D08458E880409BBC683457104237C7F8EC8D">> >>

\* if entry.is_true(env)? { write lines }
WriteIfTrue(w, key, lines) ==
    LET r == Reads(w, <<key>>)
    IN  IF r.res = "Ok" /\ is_true(r.sv, key) THEN Emit(r, lines) ELSE r

\* The host-record step of write_dns_options.
write_host_record(w) ==
    LET r == Reads(w, <<"HOSTRECORD">>)
        host_record == read(w.sv, "HOSTRECORD")
    IN  IF r.res = "Ok" /\ host_record # ""
        THEN Emit(r, <<<<"host-record=", host_record>>>>)
        ELSE r

\* The match on DNSMASQ_LISTENING of write_dns_options.
write_listening(w) ==
    LET r == Reads(w, <<"DNSMASQ_LISTENING">>)
        mode == read(w.sv, "DNSMASQ_LISTENING")
    IN  IF r.res # "Ok" THEN r
        ELSE IF mode = "all" THEN Emit(r, <<<<"except-interface=nonexisting">>>>)
        ELSE IF mode = "local" THEN Emit(r, <<<<"local-service">>>>)
        ELSE Emit(Reads(r, <<"PIHOLE_INTERFACE">>),
                  <<<<"interface=", read(w.sv, "PIHOLE_INTERFACE")>>>>)

\* The conditional-forwarding step of write_dns_options.
write_conditional_forwarding(w) ==
    LET r == Reads(w, <<"CONDITIONAL_FORWARDING">>)
        ip == read(w.sv, "CONDITIONAL_FORWARDING_IP")
    IN  IF r.res = "Ok" /\ is_true(r.sv, "CONDITIONAL_FORWARDING")
        THEN Emit(Reads(r, <<"CONDITIONAL_FORWARDING_IP",
                             "CONDITIONAL_FORWARDING_DOMAIN",
                             "CONDITIONAL_FORWARDING_REVERSE">>),
                  << <<"server=/", read(w.sv, "CONDITIONAL_FORWARDING_DOMAIN"),
                       "/", ip>>,
                     <<"server=/", read(w.sv, "CONDITIONAL_FORWARDING_REVERSE"),
                       "/", ip>> >>)
        ELSE r

\* write_dns_options with the DNSSEC block ahead of domain-needed.
write_dns_options_dnssec_first(w) ==
    LET w1 == WriteIfTrue(w, "QUERY_LOGGING", QueryLoggingLines)
        w2 == WriteIfTrue(w1, "DNSSEC", DnssecLines)
        w3 == WriteIfTrue(w2, "DNS_FQDN_REQUIRED", <<<<"domain-needed">>>>)
        w4 == WriteIfTrue(w3, "DNS_BOGUS_PRIV", <<<<"bogus-priv">>>>)
    IN  write_conditional_forwarding(write_listening(write_host_record(w4)))

\* write_dns_options
write_dns_options(w) ==
    LET w1 == WriteIfTrue(w, "QUERY_LOGGING", QueryLoggingLines)
        w2 == WriteIfTrue(w1, "DNS_FQDN_REQUIRED", <<<<"domain-needed">>>>)
        w3 == WriteIfTrue(w2, "DNS_BOGUS_PRIV", <<<<"bogus-priv">>>>)
        w4 == WriteIfTrue(w3, "DNSSEC", DnssecLines)
    IN  write_conditional_forwarding(write_listening(write_host_record(w4)))

\* lease_time without the case of an infinite lease.
lease_time_hours_only(n) == ToString(n) \o "h"

\* The lease time as write_dhcp renders it.
lease_time(n) == IF n = 0 THEN "infinite" ELSE ToString(n) \o "h"

\* write_dhcp without the return for an inactive DHCP.
write_dhcp_unconditional(w) ==
    LET r == Reads(w, <<"DHCP_ACTIVE">>)
    IN  IF r.res # "Ok" THEN r
        ELSE LET r1 == Reads(r, <<"DHCP_LEASETIME">>)
                 n == read(w.sv, "DHCP_LEASETIME")
             IN  IF r1.res # "Ok" THEN r1
                 ELSE IF n < 0 THEN Err(r1, "InvalidSettingValue")
                 ELSE LET lease == lease_time(n)
                          r2 == Reads(r1, <<"DHCP_START", "DHCP_END", "DHCP_ROUTER">>)
                          r3 == Emit(r2,
                                  << <<"dhcp-authoritative">>,
                                     <<"dhcp-leasefile=", "/etc/pihole/dhcp.leases">>,
                                     <<"dhcp-range=", read(w.sv, "DHCP_START"), ",",
                                       read(w.sv, "DHCP_END"), ",", lease>>,
                                     <<"dhcp-option=option:router,",
                                       read(w.sv, "DHCP_ROUTER")>>,
                                     <<"dhcp-name-match=", "set:wpad-ignore,wpad">>,
                                     <<"dhcp-ignore-names=", "tag:wpad-ignore">> >>)
                          r4 == Reads(r3, <<"DHCP_IPv6">>)
                      IN  IF r4.res = "Ok" /\ is_true(r4.sv, "DHCP_IPv6")
                          THEN Emit(Reads(r4, <<"PIHOLE_INTERFACE">>),
                                  << <<"dhcp-option=option6:dns-server,[::]">>,
                                     <<"dhcp-range=::100,::1ff,constructor:",
                                       read(w.sv, "PIHOLE_INTERFACE"),
                                       ",ra-names,slaac,", lease>>,
                                     <<"ra-param=*,0,0">> >>)
                          ELSE r4

\* write_dhcp
write_dhcp(w) ==
    LET r == Reads(w, <<"DHCP_ACTIVE">>)
    IN  IF r.res # "Ok" \/ ~is_true(r.sv, "DHCP_ACTIVE") THEN r
        ELSE LET r1 == Reads(r, <<"DHCP_LEASETIME">>)
                 n == read(w.sv, "DHCP_LEASETIME")
             IN  IF r1.res # "Ok" THEN r1
                 ELSE IF n < 0 THEN Err(r1, "InvalidSettingValue")
                 ELSE LET lease == lease_time(n)
                          r2 == Reads(r1, <<"DHCP_START", "DHCP_END", "DHCP_ROUTER">>)
                          r3 == Emit(r2,
                                  << <<"dhcp-authoritative">>,
                                     <<"dhcp-leasefile=", "/etc/pihole/dhcp.leases">>,
                                     <<"dhcp-range=", read(w.sv, "DHCP_START"), ",",
                                       read(w.sv, "DHCP_END"), ",", lease>>,
                                     <<"dhcp-option=option:router,",
                                       read(w.sv, "DHCP_ROUTER")>>,
                                     <<"dhcp-name-match=", "set:wpad-ignore,wpad">>,
                                     <<"dhcp-ignore-names=", "tag:wpad-ignore">> >>)
                          r4 == Reads(r3, <<"DHCP_IPv6">>)
                      IN  IF r4.res = "Ok" /\ is_true(r4.sv, "DHCP_IPv6")
                          THEN Emit(Reads(r4, <<"PIHOLE_INTERFACE">>),
                                  << <<"dhcp-option=option6:dns-server,[::]">>,
                                     <<"dhcp-range=::100,::1ff,constructor:",
                                       read(w.sv, "PIHOLE_INTERFACE"),
                                       ",ra-names,slaac,", lease>>,
                                     <<"ra-param=*,0,0">> >>)
                          ELSE r4

\* The body of generate_dnsmasq_config once the config file is open.
render(w) ==
    write_dhcp(write_dns_options(write_lists(write_servers(write_header(w)))))

\* All lines of a sequence of write calls, in order.
RECURSIVE Lines(_)
Lines(chunks) ==
    IF chunks = <<>> THEN <<>> ELSE Head(chunks) \o Lines(Tail(chunks))

\* What can fail in one generate call: opening the file, the read of one
\* key, the write call number errAt (0: none), and the device under the
\* file, which takes the first cap write calls and fails from then on
\* (-1: it never fails). A write call fails only on a failing device.
GenFault(open, rf, errAt, cap) ==
    [open |-> open, rf |-> rf, errAt |-> errAt, cap |-> cap]

NoGenFault == GenFault(FALSE, {}, 0, -1)

\* Number of write calls of a generate over sv in which nothing fails.
WriteCalls(sv) == Len(render(Writer(sv, {}, 0)).out)

\* The keys generate may read from sv.
ReadKeys(sv) == DOMAIN sv \cup {PiholeDns(i) : i \in 1..(MaxDns + 1)}

\* A call in which at most a settings read fails.
ReadFaults(sv) ==
    {NoGenFault} \cup {GenFault(FALSE, {k}, 0, -1) : k \in ReadKeys(sv)}

\* A call in which opening fails or the device fails after cap write calls:
\* write call errAt reports it, or none does (errAt = 0) and the failure
\* meets the flush of the BufWriter as it is dropped.
IoFaults(sv) ==
    {GenFault(TRUE, {}, 0, -1)}
        \cup {GenFault(FALSE, {}, 0, c) : c \in 0..WriteCalls(sv)}
        \cup UNION {{GenFault(FALSE, {}, e, c) : c \in 0..(e - 1)} :
                        e \in 1..WriteCalls(sv)}

GenFaults(sv) == ReadFaults(sv) \cup IoFaults(sv)

\* The first n elements of a sequence.
Prefix(seq, n) == SubSeq(seq, 1, IF n < Len(seq) THEN n ELSE Len(seq))

\* generate_dnsmasq_config: open_config, then render; the BufWriter is
\* dropped on every return, which flushes it and ignores a failing flush.
generate_dnsmasq_config(sv, file, fault) ==
    IF fault.open
    THEN [res |-> "FileWrite", out |-> <<>>, file |-> file]
    ELSE LET w == render(Writer(sv, fault.rf, fault.errAt))
         IN  [res |-> w.res, out |-> w.out,
              file |-> IF fault.cap < 0 THEN Lines(w.out)
                       ELSE Lines(Prefix(w.out, fault.cap))]

NoGen == [res |-> "none", out |-> <<>>]

Generate(fault) ==
    LET g == generate_dnsmasq_config(setupVars, config, fault)
    IN  /\ gen' = [res |-> g.res, out |-> g.out]
        /\ config' = g.file
        /\ UNCHANGED <<setupVars, repo, call>>

DnsKeys == {PiholeDns(i) : i \in 1..MaxDns}

FlagKeys ==
    {"QUERY_LOGGING", "DNS_FQDN_REQUIRED", "DNS_BOGUS_PRIV", "DNSSEC",
     "CONDITIONAL_FORWARDING", "DHCP_ACTIVE", "DHCP_IPv6"}

\* The settings that are the same in every store of the model.
FixedSettings ==
    [PIHOLE_INTERFACE |-> "eth0",
     CONDITIONAL_FORWARDING_IP |-> "8.8.8.8",
     CONDITIONAL_FORWARDING_DOMAIN |-> "domain.com",
     CONDITIONAL_FORWARDING_REVERSE |-> "8.8.8.in-addr.arpa",
     DHCP_START |-> "192.168.1.50",
     DHCP_END |-> "192.168.1.150",
     DHCP_ROUTER |-> "192.168.1.1"]

\* A settings store: dns[i] under PIHOLE_DNS_<i>, a value per flag.
Store(dns, flags, host_record, listening, lease) ==
    [k \in DnsKeys |-> dns[CHOOSE i \in 1..MaxDns : PiholeDns(i) = k]]
        @@ flags @@ FixedSettings
        @@ [HOSTRECORD |-> host_record, DNSMASQ_LISTENING |-> listening,
            DHCP_LEASETIME |-> lease]

DnsValues == {"", "8.8.8.8", "1.1.1.1"}

LeaseValues == -1..MaxLease

\* Stores with every choice of upstream servers, every option disabled.
ServerStores ==
    {Store(dns, [k \in FlagKeys |-> "false"], "", "local", MaxLease) :
        dns \in [1..MaxDns -> DnsValues]}

InitServers ==
    /\ setupVars \in ServerStores
    /\ config = <<>>
    /\ gen = NoGen
    /\ repo = NoCall.pre
    /\ call = NoCall

NextServers == \E fault \in GenFaults(setupVars) : Generate(fault)

SpecServers == InitServers /\ [][NextServers]_vars

OneServer == [i \in 1..MaxDns |-> IF i = 1 THEN "8.8.8.8" ELSE ""]

\* Stores with every choice of options and one upstream server.
OptionStores ==
    {Store(OneServer, flags, hr, mode, MaxLease) :
        flags \in [FlagKeys -> {"true", "false"}],
        hr \in {"", "domain.com,127.0.0.1"},
        mode \in {"all", "local", "single"}}

InitOptions ==
    /\ setupVars \in OptionStores
    /\ config = <<>>
    /\ gen = NoGen
    /\ repo = NoCall.pre
    /\ call = NoCall

NextOptions == \E fault \in ReadFaults(setupVars) : Generate(fault)

SpecOptions == InitOptions /\ [][NextOptions]_vars

\* Stores with every choice of the DHCP settings, the DNS options disabled.
DhcpStores ==
    {[DHCP_START |-> start, DHCP_END |-> end, DHCP_ROUTER |-> router]
         @@ Store(OneServer,
                  [k \in FlagKeys |->
                      CASE k = "DHCP_ACTIVE" -> active
                        [] k = "DHCP_IPv6" -> ipv6
                        [] OTHER -> "false"],
                  "", "single", lease) :
        active \in {"true", "false", ""}, ipv6 \in {"true", "false"},
        lease \in LeaseValues,
        start \in {"", "192.168.1.50"}, end \in {"", "192.168.1.150"},
        router \in {"", "192.168.1.1"}}

InitDhcp ==
    /\ setupVars \in DhcpStores
    /\ config = <<>>
    /\ gen = NoGen
    /\ repo = NoCall.pre
    /\ call = NoCall

NextDhcp == \E fault \in ReadFaults(setupVars) : Generate(fault)

SpecDhcp == InitDhcp /\ [][NextDhcp]_vars

NextLists ==
    \/ \E l \in List, d \in Domains, f \in Faults : Add(l, d, f)
    \/ \E l \in List, d \in Domains, f \in Faults : Remove(l, d, f)

SpecLists == InitLists /\ [][NextLists]_vars

(***************************************************************************)
(* Properties of the list service                                          *)
(***************************************************************************)

IsReaction(e) == e[1] \in {"reload", "ftl"}

IsMutation(e) == e[1] \in {"repo.add", "repo.remove"}

Reactions(ev) == SelectSeq(ev, IsReaction)

Mutations(ev) == SelectSeq(ev, IsMutation)

SameLists(r1, r2) == \A l \in List : r1[l] = r2[l]

\* C1: whenever add(L1, d) on White or Black returns success, d is not a
\* member of the other of the two lists right after the call, whether or
\* not it was there before.
C1_AddClearsOpposite ==
    (call.op = "add" /\ call.list \in {"White", "Black"} /\ call.res = "Ok")
        => \A l2 \in {"White", "Black"} \ {call.list} :
               ~repo_contains(repo, l2, call.domain)

\* A successful add of a domain that was on the other list before the call.
C1_Witness ==
    /\ call.op = "add" /\ call.list = "White" /\ call.res = "Ok"
    /\ repo_contains(call.pre, "Black", call.domain)

\* C2: starting from a repository with no domain on both White and Black,
\* after any sequence of completed add and remove calls, with any external
\* call free to fail, no domain is on both White and Black.
C2_NeverOnBothLists ==
    \A d \in Domains :
        ~(repo_contains(repo, "White", d) /\ repo_contains(repo, "Black", d))

NoDuplicates ==
    \A l \in List : \A i, j \in DOMAIN repo[l] :
        i # j => repo[l][i] # repo[l][j]

\* C3 as stated: add(L, d) with d already in L returns AlreadyExists and
\* does not insert, and no list ever holds an entry twice.
C3_AddExistingIsAlreadyExists ==
    /\ (call.op = "add" /\ repo_contains(call.pre, call.list, call.domain))
           => (call.res = "AlreadyExists" /\ SameLists(repo, call.pre))
    /\ NoDuplicates

\* C3 amended: add(L, d) with d already in L does not insert and returns
\* AlreadyExists, or the repository's own error when the membership test
\* fails; and no list ever holds an entry twice.
C3_AddExistingNeverInserts ==
    /\ (call.op = "add" /\ repo_contains(call.pre, call.list, call.domain))
           => /\ call.res \in {"AlreadyExists", "RepoError"}
              /\ SameLists(repo, call.pre)
              /\ call.ev = <<>>
    /\ NoDuplicates

\* An add of an entry the list already holds, answered AlreadyExists.
C3_Witness ==
    /\ call.op = "add" /\ call.res = "AlreadyExists"
    /\ repo_contains(call.pre, call.list, call.domain)
    /\ Len(repo[call.list]) >= 2

\* C4 as stated: remove(L, d) of an accepted d that is not in L returns
\* NotFound and leaves all three lists as they were.
C4_RemoveAbsentIsNotFound ==
    (/\ call.op = "remove"
     /\ accepts(call.list, call.domain)
     /\ ~repo_contains(call.pre, call.list, call.domain))
        => (call.res = "NotFound" /\ SameLists(repo, call.pre))

\* C4 amended: remove(L, d) of an accepted d that is not in L leaves all
\* three lists as they were and returns NotFound, or the repository's own
\* error when the membership test fails.
C4_RemoveAbsentChangesNothing ==
    (/\ call.op = "remove"
     /\ accepts(call.list, call.domain)
     /\ ~repo_contains(call.pre, call.list, call.domain))
        => /\ call.res \in {"NotFound", "RepoError"}
           /\ SameLists(repo, call.pre)
           /\ call.ev = <<>>

\* A remove of an accepted entry absent from its list, answered NotFound,
\* while the entry is on another list.
C4_Witness ==
    /\ call.op = "remove" /\ call.res = "NotFound"
    /\ accepts(call.list, call.domain)
    /\ ~repo_contains(call.pre, call.list, call.domain)
    /\ \E l \in List : repo_contains(call.pre, l, call.domain)

\* C5: whenever add or remove returns InvalidDomain, AlreadyExists or
\* NotFound, the call performed no repository insert or delete and all
\* three lists are as they were.
C5_ValidationErrorsMutateNothing ==
    (call.op \in {"add", "remove"}
     /\ call.res \in {"InvalidDomain", "AlreadyExists", "NotFound"})
        => (Mutations(call.ev) = <<>> /\ SameLists(repo, call.pre))

\* An add refused as InvalidDomain on a repository that holds entries.
C5_Witness ==
    /\ call.op = "add" /\ call.res = "InvalidDomain"
    /\ \A l \in List : call.pre[l] # <<>>

\* C6: add(Regex, p) leaves White and Black unchanged whatever its outcome,
\* and attempts no removal from another list.
C6_RegexAddLeavesWhiteAndBlack ==
    (call.op = "add" /\ call.list = "Regex")
        => /\ repo["White"] = call.pre["White"]
           /\ repo["Black"] = call.pre["Black"]
           /\ \A i \in DOMAIN call.ev : call.ev[i][1] # "repo.remove"

\* A successful add to Regex of a string that is on White before the call.
C6_Witness ==
    /\ call.op = "add" /\ call.list = "Regex" /\ call.res = "Ok"
    /\ repo_contains(call.pre, "White", call.domain)

ReactionErrors == {"GravityError", "ControlChannelError"}

\* C7: the reaction is attempted only after the call's repository change is
\* committed, and a failed reaction does not revert it: on a reload or
\* control-channel error the added entry is present, the removed one absent.
C7_ReactionAfterCommit ==
    /\ \A i \in DOMAIN call.ev :
           IsReaction(call.ev[i])
               => /\ \A j \in DOMAIN call.ev : IsMutation(call.ev[j]) => j < i
                  /\ \E j \in 1..(i - 1) :
                         call.ev[j] = <<(IF call.op = "add" THEN "repo.add"
                                         ELSE "repo.remove"),
                                        call.list, call.domain>>
    /\ (call.op = "add" /\ call.res \in ReactionErrors)
           => /\ repo_contains(repo, call.list, call.domain)
              /\ ~repo_contains(call.pre, call.list, call.domain)
    /\ (call.op = "remove" /\ call.res \in ReactionErrors)
           => /\ ~repo_contains(repo, call.list, call.domain)
              /\ repo_contains(call.pre, call.list, call.domain)

\* An add to White that moved the domain off Black and whose reload failed.
C7_Witness ==
    /\ call.op = "add" /\ call.list = "White" /\ call.res = "GravityError"
    /\ repo_contains(call.pre, "Black", call.domain)
    /\ repo_contains(repo, "White", call.domain)

\* The reaction add and remove owe a list.
ExpectedReaction(list) ==
    CASE list = "White" ->
             <<"reload", <<"sudo", "pihole", "-g", "--skip-download",
                           "--whitelist-only">>>>
      [] list = "Black" ->
             <<"reload", <<"sudo", "pihole", "-g", "--skip-download",
                           "--blacklist-only">>>>
      [] list = "Regex" -> <<"ftl", "recompile-regex">>

\* C8: a call triggers at most one reaction, the one of its list (White:
\* reload of the whitelist only, Black: reload of the blacklist only,
\* Regex: recompile-regex), only when every earlier step succeeded, and
\* it returns success only if that reaction succeeded.
C8_OneScopedReaction ==
    LET rs == Reactions(call.ev)
    IN  /\ Len(rs) <= 1
        /\ \A i \in DOMAIN rs :
               <<rs[i][1], rs[i][2]>> = ExpectedReaction(call.list)
        /\ (call.res \notin ({"Ok"} \cup ReactionErrors)) => rs = <<>>
        /\ rs # <<>> => (call.res = "Ok" <=> rs[1][3] \in {"exit 0", "eom"})
        /\ (call.op # "none" /\ call.res = "Ok")
               => (rs # <<>> /\ rs[1][3] \in {"exit 0", "eom"})

\* A remove from Black whose reload ran and exited non-zero.
C8_Witness ==
    /\ call.op = "remove" /\ call.list = "Black"
    /\ call.res = "GravityError"
    /\ Reactions(call.ev) =
           <<<<"reload", <<"sudo", "pihole", "-g", "--skip-download",
                           "--blacklist-only">>, "exit 1">>>>

\* The last call is an add to White or Black that got past its insert.
AddInserted ==
    /\ call.op = "add" /\ call.list \in {"White", "Black"}
    /\ call.ev # <<>>
    /\ call.ev[1] = <<"repo.add", call.list, call.domain>>

\* The other of White and Black.
OtherList == IF call.list = "White" THEN "Black" ELSE "White"

\* C14: in add(L, d) on White or Black, once d is inserted into L: with d
\* absent from the other list the NotFound of the cross-list removal is
\* swallowed and add goes on to the reload; a cross-list removal failing for
\* another reason makes add return that error, trigger no reload and leave
\* d in L; add suppresses no other error than that NotFound.
C14_CrossRemovalErrors ==
    /\ call.op = "add" => call.res # "NotFound"
    /\ (AddInserted /\ ~repo_contains(call.pre, OtherList, call.domain))
           => \/ call.res \in {"Ok", "GravityError"} /\ Len(Reactions(call.ev)) = 1
              \/ call.res = "RepoError"
    /\ (AddInserted /\ call.res \notin {"Ok", "GravityError"})
           => /\ call.res = "RepoError"
              /\ Reactions(call.ev) = <<>>
              /\ call.ev = <<<<"repo.add", call.list, call.domain>>>>
              /\ repo_contains(repo, call.list, call.domain)
              /\ repo[OtherList] = call.pre[OtherList]
    /\ (AddInserted /\ call.res = "Ok")
           => /\ repo_contains(repo, call.list, call.domain)
              /\ ~repo_contains(repo, OtherList, call.domain)
              /\ Reactions(call.ev)[1][3] = "exit 0"
              /\ repo_contains(call.pre, OtherList, call.domain)
                     => call.ev[2] = <<"repo.remove", OtherList, call.domain>>

\* An add to White of a domain on Black whose removal from Black failed:
\* the error is returned, nothing is reloaded, the domain stays on White.
C14_Witness ==
    /\ AddInserted /\ call.list = "White" /\ call.res = "RepoError"
    /\ repo_contains(call.pre, "Black", call.domain)
    /\ repo_contains(repo, "White", call.domain)
    /\ Reactions(call.ev) = <<>>

(***************************************************************************)
(* Properties of the configuration generator                               *)
(***************************************************************************)

\* The lines generate handed to the writer in its last call.
Written == Lines(gen.out)

\* The lines of a sequence whose directive is one of names.
Directive(line) == line[1]

Select(lines, names) == SelectSeq(lines, LAMBDA l : Directive(l) \in names)

\* The smallest index whose PIHOLE_DNS_<n> is missing or empty.
FirstGap(sv) ==
    CHOOSE n \in 1..(MaxDns + 1) :
        /\ (PiholeDns(n) \notin DOMAIN sv \/ sv[PiholeDns(n)] = "")
        /\ \A m \in 1..(n - 1) : PiholeDns(m) \in DOMAIN sv /\ sv[PiholeDns(m)] # ""

UpstreamLines(sv) ==
    [i \in 1..(FirstGap(sv) - 1) |-> <<"server=", sv[PiholeDns(i)]>>]

\* C9: the upstream-server lines generate writes are exactly server=<v_i>
\* for i = 1..k in increasing i, k + 1 being the smallest index whose
\* PIHOLE_DNS_<n> is missing or empty; nothing above the first gap is
\* written. A call that fails has written a prefix of these lines.
C9_ServersUpToFirstGap ==
    LET servers == Select(Written, {"server="})
        expected == UpstreamLines(setupVars)
    IN  /\ gen.res = "Ok" => servers = expected
        /\ gen.res # "none" =>
               /\ Len(servers) <= Len(expected)
               /\ servers = SubSeq(expected, 1, Len(servers))

\* A successful call over a store with servers 1 and 2, a gap at 3 and a
\* server at 4.
C9_Witness ==
    /\ gen.res = "Ok"
    /\ setupVars[PiholeDns(1)] = "8.8.8.8" /\ setupVars[PiholeDns(2)] = "1.1.1.1"
    /\ setupVars[PiholeDns(3)] = "" /\ setupVars[PiholeDns(4)] = "1.1.1.1"
    /\ Select(Written, {"server="}) = <<<<"server=", "8.8.8.8">>, <<"server=", "1.1.1.1">>>>

\* The directive groups in the order stated for the file, each with the
\* directives of its lines.
GroupDirectives ==
    << [i \in DOMAIN DNSMASQ_HEADER |-> DNSMASQ_HEADER[i][1]],
       <<"server=">>,
       <<"addn-hosts=", "addn-hosts=", "addn-hosts=">>,
       <<"log-queries", "log-facility=", "log-async">>,
       <<"domain-needed">>,
       <<"bogus-priv">>,
       <<"dnssec", "trust-anchor=", "trust-anchor=">>,
       <<"host-record=">>,
       <<"except-interface=nonexisting", "local-service", "interface=">>,
       <<"server=/", "server=/">>,
       <<"dhcp-authoritative", "dhcp-leasefile=", "dhcp-range=",
         "dhcp-option=option:router,", "dhcp-name-match=", "dhcp-ignore-names=">>,
       <<"dhcp-option=option6:dns-server,[::]",
         "dhcp-range=::100,::1ff,constructor:", "ra-param=*,0,0">> >>

Groups == DOMAIN GroupDirectives

Names(g) == {GroupDirectives[g][i] : i \in DOMAIN GroupDirectives[g]}

GroupOf(line) == CHOOSE g \in Groups : Directive(line) \in Names(g)

\* The directives a group has in the file generated from sv; a disabled
\* group has none.
GroupExpected(sv, g) ==
    LET on(key) == key \in DOMAIN sv /\ sv[key] = "true"
        all == GroupDirectives[g]
    IN  CASE g = 2 -> [i \in 1..(FirstGap(sv) - 1) |-> "server="]
          [] g = 4 -> IF on("QUERY_LOGGING") THEN all ELSE <<>>
          [] g = 5 -> IF on("DNS_FQDN_REQUIRED") THEN all ELSE <<>>
          [] g = 6 -> IF on("DNS_BOGUS_PRIV") THEN all ELSE <<>>
          [] g = 7 -> IF on("DNSSEC") THEN all ELSE <<>>
          [] g = 8 -> IF sv["HOSTRECORD"] # "" THEN all ELSE <<>>
          [] g = 9 -> IF sv["DNSMASQ_LISTENING"] = "all" THEN <<all[1]>>
                      ELSE IF sv["DNSMASQ_LISTENING"] = "local" THEN <<all[2]>>
                      ELSE <<all[3]>>
          [] g = 10 -> IF on("CONDITIONAL_FORWARDING") THEN all ELSE <<>>
          [] g = 11 -> IF on("DHCP_ACTIVE") THEN all ELSE <<>>
          [] g = 12 -> IF on("DHCP_ACTIVE") /\ on("DHCP_IPv6") THEN all ELSE <<>>
          [] OTHER -> all

\* C10: the directive groups generate writes come in the fixed order
\* header, upstream servers, addn-hosts, query logging, domain-needed,
\* bogus-priv, dnssec with its trust anchors, host-record, listening mode,
\* conditional forwarding, DHCP block, DHCP IPv6 addendum; a completed
\* generate has written each enabled group once and no disabled group.
C10_GroupsInFixedOrder ==
    /\ \A i \in DOMAIN Written : \E g \in Groups : Directive(Written[i]) \in Names(g)
    /\ \A i \in 1..(Len(Written) - 1) :
           GroupOf(Written[i]) <= GroupOf(Written[i + 1])
    /\ gen.res = "Ok" =>
           \A g \in Groups :
               LET got == Select(Written, Names(g))
               IN  [i \in DOMAIN got |-> Directive(got[i])]
                       = GroupExpected(setupVars, g)

\* A successful call over a store with every option enabled.
C10_Witness ==
    /\ gen.res = "Ok"
    /\ \A k \in FlagKeys : setupVars[k] = "true"
    /\ setupVars["HOSTRECORD"] # ""
    /\ \A g \in Groups : Select(Written, Names(g)) # <<>>

\* The directives of the DHCP block and of its IPv6 addendum.
DhcpDirectives ==
    {"dhcp-authoritative", "dhcp-leasefile=", "dhcp-range=",
     "dhcp-option=option:router,", "dhcp-name-match=", "dhcp-ignore-names="}

Ipv6Directives ==
    {"dhcp-option=option6:dns-server,[::]",
     "dhcp-range=::100,::1ff,constructor:", "ra-param=*,0,0"}

Setting(key) == IF key \in DOMAIN setupVars THEN setupVars[key] ELSE ""

\* C11: when DHCP_ACTIVE is not true, generate writes no line of the DHCP
\* block and none of the IPv6 addendum, whatever DHCP_START, DHCP_END,
\* DHCP_ROUTER, DHCP_LEASETIME and DHCP_IPv6 hold; the IPv6 addendum is
\* written only when DHCP_ACTIVE and DHCP_IPv6 are both true.
C11_InactiveDhcpWritesNothing ==
    /\ Setting("DHCP_ACTIVE") # "true"
           => Select(Written, DhcpDirectives \cup Ipv6Directives) = <<>>
    /\ Select(Written, Ipv6Directives) # <<>>
           => (Setting("DHCP_ACTIVE") = "true" /\ Setting("DHCP_IPv6") = "true")

\* A successful call over a store with DHCP inactive and every other DHCP
\* setting populated, DHCP_IPv6 = true included.
C11_Witness ==
    /\ gen.res = "Ok"
    /\ Setting("DHCP_ACTIVE") = "false" /\ Setting("DHCP_IPv6") = "true"
    /\ Setting("DHCP_START") # "" /\ Setting("DHCP_END") # ""
    /\ Setting("DHCP_ROUTER") # "" /\ Setting("DHCP_LEASETIME") > 0
    /\ Written # <<>>

\* The lease a dhcp-range line carries for a lease time of n hours.
RenderedLease(n) ==
    CASE n = 0 -> "infinite"
      [] n = 1 -> "1h"
      [] n = 2 -> "2h"
      [] n = 3 -> "3h"
      [] OTHER -> ToString(n) \o "h"

\* C12: with DHCP active, the lease of the dhcp-range line is the literal
\* infinite for DHCP_LEASETIME 0 and <n>h for every other non-negative n,
\* and the IPv6 dhcp-range line, when written, carries the same lease.
C12_LeaseRendering ==
    LET v4 == Select(Written, {"dhcp-range="})
        v6 == Select(Written, {"dhcp-range=::100,::1ff,constructor:"})
        n == Setting("DHCP_LEASETIME")
    IN  /\ \A i \in DOMAIN v4 : n >= 0 /\ v4[i][6] = RenderedLease(n)
        /\ \A i \in DOMAIN v6 : v4 # <<>> /\ v6[i][4] = v4[1][6]
        /\ (gen.res = "Ok" /\ Setting("DHCP_ACTIVE") = "true") => Len(v4) = 1
        /\ (gen.res = "Ok" /\ Setting("DHCP_ACTIVE") = "true"
                /\ Setting("DHCP_IPv6") = "true") => Len(v6) = 1

\* A successful call with DHCP and IPv6 active and a lease time of 0: both
\* dhcp-range lines carry infinite.
C12_Witness ==
    /\ gen.res = "Ok"
    /\ Setting("DHCP_LEASETIME") = 0
    /\ \E i, j \in DOMAIN Written :
           /\ Written[i] = <<"dhcp-range=", "192.168.1.50", ",", "192.168.1.150",
                             ",", "infinite">>
           /\ Written[j] = <<"dhcp-range=::100,::1ff,constructor:", "eth0",
                             ",ra-names,slaac,", "infinite">>

\* C13: two successful generate calls over the same settings leave the
\* same contents in the config file, whatever it held before each call.
C13_SuccessfulCallsAgree ==
    [][(gen.res = "Ok" /\ gen'.res = "Ok" /\ setupVars' = setupVars)
           => config' = config]_vars

\* C15: a failure to open the config file is returned with nothing
\* written, a failing write is returned as an error, and so generate
\* returns success only when the config file holds all it rendered.
C15_IoFailuresReported ==
    /\ gen.res = "FileWrite" => gen.out = <<>>
    /\ config # Lines(gen.out) => gen.res \in {"FileWrite", "DnsmasqConfigWrite"}
    /\ gen.res = "Ok" => config = Lines(gen.out)

====
